---- MODULE Spec2Model ----
(***************************************************************************)
(* A model of plot.py: the DeepCC log plotter.  One run of main is a       *)
(* linear pipeline  load_data -> ensure_cols -> open PdfPages -> ten pages *)
(* -> close -> print.  The table is modelled by its numpy shape (a tuple   *)
(* of dimensions); the values of the samples play no part in control flow. *)
(***************************************************************************)
EXTENDS Integers, Sequences, FiniteSets, TLC

\* Bounds of the input files explored.
MaxLines == 78
MaxWidth == 78

VARIABLES
    file,    \* the input file: kind, number of data lines, tokens per line
    out,     \* args.out ("" when the flag is absent)
    pc,      \* position of main
    data,    \* numpy shape of the global `data` (<<>> is a 0-d array)
    t,       \* pick(data, "time")
    pdf,     \* the PdfPages object: opened, closed, pages appended
    stdout,  \* lines printed to standard output
    stderr,  \* error reports on standard error
    status   \* exit status, -1 while the process runs

vars == <<file, out, pc, data, t, pdf, stdout, stderr, status>>

----------------------------------------------------------------------------
\* The Schema Registry

COLS ==
    ("time" :> 0) @@ ("max_tmp" :> 1) @@
    ("rtt_100x_ms" :> 2) @@ ("rttvar_ms" :> 3) @@ ("rto_100x_ms" :> 4) @@
    ("ato_100x_ms" :> 5) @@ ("pacing_rate_norm" :> 6) @@
    ("delivery_rate_norm" :> 7) @@ ("snd_ssthresh" :> 8) @@ ("ca_state" :> 9) @@
    ("rtt_s_avg" :> 10) @@ ("rtt_s_min" :> 11) @@ ("rtt_s_max" :> 12) @@
    ("rtt_m_avg" :> 13) @@ ("rtt_m_min" :> 14) @@ ("rtt_m_max" :> 15) @@
    ("rtt_l_avg" :> 16) @@ ("rtt_l_min" :> 17) @@ ("rtt_l_max" :> 18) @@
    ("thr_s_avg" :> 19) @@ ("thr_s_min" :> 20) @@ ("thr_s_max" :> 21) @@
    ("thr_m_avg" :> 22) @@ ("thr_m_min" :> 23) @@ ("thr_m_max" :> 24) @@
    ("thr_l_avg" :> 25) @@ ("thr_l_min" :> 26) @@ ("thr_l_max" :> 27) @@
    ("rtt_rate_s_avg" :> 28) @@ ("rtt_rate_s_min" :> 29) @@ ("rtt_rate_s_max" :> 30) @@
    ("rtt_rate_m_avg" :> 31) @@ ("rtt_rate_m_min" :> 32) @@ ("rtt_rate_m_max" :> 33) @@
    ("rtt_rate_l_avg" :> 34) @@ ("rtt_rate_l_min" :> 35) @@ ("rtt_rate_l_max" :> 36) @@
    ("rtt_var_s_avg" :> 37) @@ ("rtt_var_s_min" :> 38) @@ ("rtt_var_s_max" :> 39) @@
    ("rtt_var_m_avg" :> 40) @@ ("rtt_var_m_min" :> 41) @@ ("rtt_var_m_max" :> 42) @@
    ("rtt_var_l_avg" :> 43) @@ ("rtt_var_l_min" :> 44) @@ ("rtt_var_l_max" :> 45) @@
    ("inflight_s_avg" :> 46) @@ ("inflight_s_min" :> 47) @@ ("inflight_s_max" :> 48) @@
    ("inflight_m_avg" :> 49) @@ ("inflight_m_min" :> 50) @@ ("inflight_m_max" :> 51) @@
    ("inflight_l_avg" :> 52) @@ ("inflight_l_min" :> 53) @@ ("inflight_l_max" :> 54) @@
    ("lost_s_avg" :> 55) @@ ("lost_s_min" :> 56) @@ ("lost_s_max" :> 57) @@
    ("lost_m_avg" :> 58) @@ ("lost_m_min" :> 59) @@ ("lost_m_max" :> 60) @@
    ("lost_l_avg" :> 61) @@ ("lost_l_min" :> 62) @@ ("lost_l_max" :> 63) @@
    ("dr_minus_loss" :> 64) @@ ("time_delta_norm" :> 65) @@
    ("rtt_rate_scalar" :> 66) @@ ("loss_norm" :> 67) @@
    ("acked_rate_norm" :> 68) @@ ("dr_w_ratio" :> 69) @@
    ("queue_delay_proxy" :> 70) @@ ("dr_w_norm" :> 71) @@
    ("cwnd_unacked_rate" :> 72) @@ ("dr_w_max_ratio" :> 73) @@
    ("dr_w_max_norm" :> 74) @@ ("reward" :> 75) @@ ("cwnd_rate" :> 76)

TRIPLETS ==
    << <<"rtt_s", "ms (avg/min/max)">>,
       <<"rtt_m", "ms (avg/min/max)">>,
       <<"rtt_l", "ms (avg/min/max)">>,
       <<"thr_s", "norm (avg/min/max)">>,
       <<"thr_m", "norm (avg/min/max)">>,
       <<"thr_l", "norm (avg/min/max)">>,
       <<"rtt_rate_s", "1/s (avg/min/max)">>,
       <<"rtt_rate_m", "1/s (avg/min/max)">>,
       <<"rtt_rate_l", "1/s (avg/min/max)">>,
       <<"rtt_var_s", "ms (avg/min/max)">>,
       <<"rtt_var_m", "ms (avg/min/max)">>,
       <<"rtt_var_l", "ms (avg/min/max)">>,
       <<"inflight_s", "k pkts (avg/min/max)">>,
       <<"inflight_m", "k pkts (avg/min/max)">>,
       <<"inflight_l", "k pkts (avg/min/max)">>,
       <<"lost_s", "x/100 (avg/min/max)">>,
       <<"lost_m", "x/100 (avg/min/max)">>,
       <<"lost_l", "x/100 (avg/min/max)">> >>

\* The label of dr_minus_loss carries a Unicode minus sign in the source;
\* it is written here with an ASCII hyphen.
SINGLES_IN_ORDER ==
    << <<"rtt_100x_ms", "RTT (100x ms)">>,
       <<"rttvar_ms", "RTTVar (ms)">>,
       <<"rto_100x_ms", "RTO (100x ms)">>,
       <<"ato_100x_ms", "ATO (100x ms)">>,
       <<"pacing_rate_norm", "Pacing rate (norm)">>,
       <<"delivery_rate_norm", "Delivery rate (norm)">>,
       <<"snd_ssthresh", "snd_ssthresh">>,
       <<"ca_state", "TCP CA state">>,
       <<"rtt_rate_scalar", "RTT rate (scalar)">>,
       <<"dr_minus_loss", "Delivered - Loss (Mbps)">>,
       <<"time_delta_norm", "time_delta (norm)">>,
       <<"loss_norm", "loss (norm)">>,
       <<"acked_rate_norm", "acked_rate (norm)">>,
       <<"dr_w_ratio", "dr_w ratio">>,
       <<"queue_delay_proxy", "queue delay proxy">>,
       <<"dr_w_norm", "dr_w (norm)">>,
       <<"cwnd_unacked_rate", "cwnd_unacked_rate">>,
       <<"dr_w_max_ratio", "dr_w_max ratio">>,
       <<"dr_w_max_norm", "dr_w_max (norm)">>,
       <<"cwnd_rate", "cwnd_rate">>,
       <<"reward", "reward">>,
       <<"max_tmp", "max_tmp (capacity)">> >>

----------------------------------------------------------------------------
\* Helpers

Max(S) == CHOOSE m \in S : \A x \in S : x <= m

Min2(a, b) == IF a <= b THEN a ELSE b

Range(f) == {f[x] : x \in DOMAIN f}

----------------------------------------------------------------------------
\* The command line.  The input path is kept in the three parts that
\* os.path.splitext and os.path.basename take it apart into.

FilePath == [dir |-> "logs/", stem |-> "trace", ext |-> ".txt"]

PathStr(p) == p.dir \o p.stem \o p.ext

\* os.path.splitext(p)[0]
splitext0(p) == p.dir \o p.stem

\* os.path.basename(p)
basename(p) == p.stem \o p.ext

\* out_path = args.out or (splitext(args.file)[0] + "_all_metrics.pdf")
out_path == IF out # "" THEN out ELSE splitext0(FilePath) \o "_all_metrics.pdf"

title_suffix == basename(FilePath)

----------------------------------------------------------------------------
\* load_data

\* The files explored: unreadable or unparsable ones, and numeric files of
\* L data lines with W tokens on each line.
FileKinds == {"missing", "malformed", "ragged", "numeric"}

Files ==
    {[kind |-> k, L |-> 2, W |-> 2] : k \in FileKinds \ {"numeric"}}
    \cup {[kind |-> "numeric", L |-> l, W |-> w] : l \in 1..MaxLines, w \in 1..MaxWidth}
    \cup {[kind |-> "numeric", L |-> 0, W |-> 0]}

\* np.loadtxt(path, dtype=float) with the default ndmin=0: the L x W array
\* is squeezed, every axis of length one is dropped.  A file without data
\* gives an empty one-dimensional array.  The result is the array's shape
\* and whether loadtxt raised instead.
loadtxt(f) ==
    IF f.kind # "numeric" THEN [raised |-> TRUE, shape |-> <<>>]
    ELSE IF f.L = 0 THEN [raised |-> FALSE, shape |-> <<0>>]
    ELSE [raised |-> FALSE, shape |-> SelectSeq(<<f.L, f.W>>, LAMBDA d : d # 1)]

\* The number of elements of an array of the given shape
Size(shape) == IF Len(shape) = 0 THEN 1
               ELSE IF Len(shape) = 1 THEN shape[1]
               ELSE shape[1] * shape[2]

\* data.reshape(1, -1)
reshape_1_row(shape) == <<1, Size(shape)>>

\* The body of the try block of load_data: the array it returns
load_data(f) ==
    LET r == loadtxt(f)
    IN  IF r.raised THEN r
        ELSE IF Len(r.shape) = 1
             THEN [raised |-> FALSE, shape |-> reshape_1_row(r.shape)]
             ELSE r

----------------------------------------------------------------------------
\* ensure_cols

needed == Max(Range(COLS))

NoError == [exc |-> "none", actual |-> 0, required |-> 0]

\* ensure_cols with the comparison off by one (< for <=)
ensure_cols_strict(shape) ==
    IF Len(shape) < 2 THEN [exc |-> "IndexError", actual |-> 0, required |-> 0]
    ELSE IF shape[2] < needed
         THEN [exc |-> "ValueError", actual |-> shape[2], required |-> needed + 1]
         ELSE NoError

\* The exception ensure_cols raises on an array of the given shape, NoError
\* when it returns.  data.shape[1] of an array with fewer than two axes is
\* an IndexError.
ensure_cols(shape) ==
    IF Len(shape) < 2 THEN [exc |-> "IndexError", actual |-> 0, required |-> 0]
    ELSE IF shape[2] <= needed
         THEN [exc |-> "ValueError", actual |-> shape[2], required |-> needed + 1]
         ELSE NoError

----------------------------------------------------------------------------
\* pick: the column of a metric, as its length and position, or the
\* exception the lookup or the indexing raises.

pick(d, key) ==
    IF key \notin DOMAIN COLS THEN [exc |-> "KeyError", len |-> 0, col |-> 0]
    ELSE IF Len(d) # 2 \/ COLS[key] >= d[2]
         THEN [exc |-> "IndexError", len |-> 0, col |-> 0]
         ELSE [exc |-> "none", len |-> d[1], col |-> COLS[key]]

----------------------------------------------------------------------------
\* Charts.  An axes object holds the lines drawn on it and its two labels;
\* a line holds the key it was picked by, the picked column and its style.

EmptyAx == [lines |-> <<>>, ylabel |-> "", xlabel |-> "", grid |-> FALSE,
            legend |-> FALSE]

Line(d, key, style, label) ==
    [key |-> key, y |-> pick(d, key), style |-> style, label |-> label]

\* page(fig_title, rows): plt.subplots(rows, 1, ...) and the title
page(fig_title, rows) ==
    [title |-> fig_title, axes |-> [i \in 1..rows |-> EmptyAx]]

\* plot_triplet asking for a series name the registry does not hold
plot_triplet_mean(ax, d, base_key, ylabel) ==
    [ax EXCEPT !.lines = @ \o << Line(d, base_key \o "_mean", "-", base_key \o " avg"),
                                 Line(d, base_key \o "_min", "--", base_key \o " min"),
                                 Line(d, base_key \o "_max", ":", base_key \o " max") >>,
               !.ylabel = ylabel,
               !.grid = TRUE,
               !.legend = TRUE]

plot_triplet(ax, d, base_key, ylabel) ==
    [ax EXCEPT !.lines = @ \o << Line(d, base_key \o "_avg", "-", base_key \o " avg"),
                                 Line(d, base_key \o "_min", "--", base_key \o " min"),
                                 Line(d, base_key \o "_max", ":", base_key \o " max") >>,
               !.ylabel = ylabel,
               !.grid = TRUE,
               !.legend = TRUE]

\* ax.plot(t, pick(data, key)); ax.set_ylabel(ylabel); ax.grid(...)
\* (ax.step on the ca_state chart: style "step")
plot_single(ax, d, key, style, ylabel) ==
    [ax EXCEPT !.lines = @ \o << Line(d, key, style, "") >>,
               !.ylabel = ylabel,
               !.grid = TRUE]

set_xlabel(ax, label) == [ax EXCEPT !.xlabel = label]

\* for ax, key in zip(axes, keys): the loop body runs on the first
\* min(len(axes), len(keys)) axes, with the key itself as the y label.
zip_plot(pg, d, keys) ==
    [pg EXCEPT !.axes = [i \in DOMAIN pg.axes |->
        IF i <= Len(keys) THEN plot_single(pg.axes[i], d, keys[i], "-", keys[i])
        ELSE pg.axes[i]]]

\* the x label put on the first chart (axes[0]) instead of the last
label_first(pg) ==
    [pg EXCEPT !.axes[1] = set_xlabel(@, "time (s)")]

\* axes[-1].set_xlabel("time (s)")
label_last(pg) ==
    [pg EXCEPT !.axes[Len(pg.axes)] = set_xlabel(@, "time (s)")]

----------------------------------------------------------------------------
\* The ten pages of the with block, each as the figure handed to
\* pdf.savefig.  (The dash of the first title is an em dash in the source.)

Page1(d) ==
    LET pg == page("Headline: Gradients & Reward - " \o title_suffix, 5)
    IN  [pg EXCEPT
            !.axes[1] = plot_triplet(@, d, "rtt_rate_s", "Short grad (1/s)"),
            !.axes[2] = plot_triplet(@, d, "rtt_rate_m", "Med grad (1/s)"),
            !.axes[3] = plot_triplet(@, d, "rtt_rate_l", "Long grad (1/s)"),
            !.axes[4] = plot_single(@, d, "rtt_rate_scalar", "-", "rtt_rate scalar"),
            !.axes[5] = set_xlabel(plot_single(@, d, "reward", "-", "reward"), "time (s)")]

singles == <<"rtt_100x_ms", "rttvar_ms", "rto_100x_ms", "ato_100x_ms",
             "pacing_rate_norm", "delivery_rate_norm">>

Page2(d) ==
    label_last(zip_plot(page("Base TCP / pacing / delivery", 6), d, singles))

Page3(d) ==
    LET pg == page("Congestion state", 3)
    IN  [pg EXCEPT
            !.axes[1] = plot_single(@, d, "snd_ssthresh", "-", "snd_ssthresh"),
            !.axes[2] = plot_single(@, d, "ca_state", "step", "ca_state"),
            !.axes[3] = set_xlabel(plot_single(@, d, "cwnd_rate", "-", "cwnd_rate"), "time (s)")]

Page4(d) ==
    LET pg == page("RTT smoothed windows", 3)
    IN  label_last([pg EXCEPT
            !.axes[1] = plot_triplet(@, d, "rtt_s", "RTT short (ms)"),
            !.axes[2] = plot_triplet(@, d, "rtt_m", "RTT med (ms)"),
            !.axes[3] = plot_triplet(@, d, "rtt_l", "RTT long (ms)")])

Page5(d) ==
    LET pg == page("Throughput (normalized) windows", 3)
    IN  label_last([pg EXCEPT
            !.axes[1] = plot_triplet(@, d, "thr_s", "thr short (norm)"),
            !.axes[2] = plot_triplet(@, d, "thr_m", "thr med (norm)"),
            !.axes[3] = plot_triplet(@, d, "thr_l", "thr long (norm)")])

Page6(d) ==
    LET pg == page("RTT gradient windows", 3)
    IN  label_last([pg EXCEPT
            !.axes[1] = plot_triplet(@, d, "rtt_rate_s", "grad short (1/s)"),
            !.axes[2] = plot_triplet(@, d, "rtt_rate_m", "grad med (1/s)"),
            !.axes[3] = plot_triplet(@, d, "rtt_rate_l", "grad long (1/s)")])

Page7(d) ==
    LET pg == page("RTT variance windows", 3)
    IN  label_last([pg EXCEPT
            !.axes[1] = plot_triplet(@, d, "rtt_var_s", "rttvar short (ms)"),
            !.axes[2] = plot_triplet(@, d, "rtt_var_m", "rttvar med (ms)"),
            !.axes[3] = plot_triplet(@, d, "rtt_var_l", "rttvar long (ms)")])

Page8(d) ==
    LET pg == page("Inflight windows", 3)
    IN  label_last([pg EXCEPT
            !.axes[1] = plot_triplet(@, d, "inflight_s", "inflight short (k pkts)"),
            !.axes[2] = plot_triplet(@, d, "inflight_m", "inflight med (k pkts)"),
            !.axes[3] = plot_triplet(@, d, "inflight_l", "inflight long (k pkts)")])

Page9(d) ==
    LET pg == page("Loss windows", 3)
    IN  label_last([pg EXCEPT
            !.axes[1] = plot_triplet(@, d, "lost_s", "lost short (x/100)"),
            !.axes[2] = plot_triplet(@, d, "lost_m", "lost med (x/100)"),
            !.axes[3] = plot_triplet(@, d, "lost_l", "lost long (x/100)")])

tail_keys == <<"dr_minus_loss", "time_delta_norm", "rtt_rate_scalar", "loss_norm",
               "acked_rate_norm", "dr_w_ratio", "queue_delay_proxy", "dr_w_norm",
               "cwnd_unacked_rate", "dr_w_max_ratio", "dr_w_max_norm", "reward",
               "max_tmp">>

\* rows = len(axes); zip(axes, tail_keys[:rows])
Page10(d) ==
    LET pg   == page("Tail metrics", 7)
        rows == Len(pg.axes)
    IN  label_last(zip_plot(pg, d, SubSeq(tail_keys, 1, Min2(rows, Len(tail_keys)))))

\* the throughput and the gradient page built in the other order
Pages_swapped(d) == << Page1(d), Page2(d), Page3(d), Page4(d), Page6(d),
                       Page5(d), Page7(d), Page8(d), Page9(d), Page10(d) >>

\* The pages in the order the with block builds them
Pages(d) == << Page1(d), Page2(d), Page3(d), Page4(d), Page5(d),
               Page6(d), Page7(d), Page8(d), Page9(d), Page10(d) >>

NPages == Len(Pages(<<1, 1>>))

\* The exceptions that pick raises while a page is drawn
PickErrors(pg) ==
    UNION {{pg.axes[i].lines[j].y.exc : j \in DOMAIN pg.axes[i].lines} :
           i \in DOMAIN pg.axes} \ {"none"}

----------------------------------------------------------------------------
\* main

Report(kind, exc, actual, required, pageno) ==
    [kind |-> kind, exc |-> exc, path |-> PathStr(FilePath),
     actual |-> actual, required |-> required, page |-> pageno]

Init ==
    /\ file \in Files
    /\ out \in {"", "report.pdf"}
    /\ pc = "load"
    /\ data = <<>>
    /\ t = [exc |-> "unset", len |-> 0, col |-> 0]
    /\ pdf = [opened |-> FALSE, closed |-> FALSE, pages |-> <<>>]
    /\ stdout = <<>>
    /\ stderr = <<>>
    /\ status = -1

\* load_data whose except branch prints the error and falls through
\* instead of calling sys.exit(1)
LoadData_noexit ==
    /\ pc = "load"
    /\ LET r == load_data(file)
       IN  /\ stderr' = IF r.raised
                        THEN Append(stderr, Report("Error reading", "Exception", 0, 0, 0))
                        ELSE stderr
           /\ data' = IF r.raised THEN data ELSE r.shape
    /\ pc' = "validate"
    /\ UNCHANGED <<file, out, t, pdf, stdout, status>>

\* data = load_data(args.file): on any exception the error naming the path
\* is printed to stderr and sys.exit(1) ends the process.
LoadData ==
    /\ pc = "load"
    /\ LET r == load_data(file)
       IN  IF r.raised
           THEN /\ stderr' = Append(stderr, Report("Error reading", "Exception", 0, 0, 0))
                /\ status' = 1
                /\ pc' = "exited"
                /\ data' = data
           ELSE /\ data' = r.shape
                /\ pc' = "validate"
                /\ UNCHANGED <<stderr, status>>
    /\ UNCHANGED <<file, out, t, pdf, stdout>>

\* ensure_cols(data): its exception is caught nowhere, so the interpreter
\* prints the traceback with the message and exits with status 1.
EnsureCols ==
    /\ pc = "validate"
    /\ LET e == ensure_cols(data)
       IN  IF e.exc # "none"
           THEN /\ stderr' = Append(stderr, Report("Traceback", e.exc, e.actual, e.required, 0))
                /\ status' = 1
                /\ pc' = "exited"
           ELSE /\ pc' = "open"
                /\ UNCHANGED <<stderr, status>>
    /\ UNCHANGED <<file, out, data, t, pdf, stdout>>

\* t = pick(data, "time"), then PdfPages(out_path) is entered.
OpenPdf ==
    /\ pc = "open"
    /\ LET c == pick(data, "time")
       IN  IF c.exc # "none"
           THEN /\ stderr' = Append(stderr, Report("Traceback", c.exc, 0, 0, 0))
                /\ status' = 1
                /\ pc' = "exited"
                /\ UNCHANGED <<t, pdf>>
           ELSE /\ t' = c
                /\ pdf' = [pdf EXCEPT !.opened = TRUE]
                /\ pc' = "render"
                /\ UNCHANGED <<stderr, status>>
    /\ UNCHANGED <<file, out, data, stdout>>

\* PdfPages(out_path) raises (the path cannot be written): nothing is opened.
OpenFail ==
    /\ pc = "open"
    /\ pick(data, "time").exc = "none"
    /\ stderr' = Append(stderr, Report("Traceback", "OSError", 0, 0, 0))
    /\ status' = 1
    /\ pc' = "exited"
    /\ UNCHANGED <<file, out, data, t, pdf, stdout>>

\* The next page is drawn and pdf.savefig(fig) appends it.
RenderPage ==
    /\ pc = "render"
    /\ LET k  == Len(pdf.pages) + 1
           pg == Pages(data)[k]
       IN  /\ PickErrors(pg) = {}
           /\ pdf' = [pdf EXCEPT !.pages = Append(@, pg)]
           /\ pc' = IF k = NPages THEN "close" ELSE "render"
    /\ UNCHANGED <<file, out, data, t, stdout, stderr, status>>

\* a failing page whose exception leaves the document open (no with block)
RenderFail_noclose ==
    /\ pc = "render"
    /\ LET k    == Len(pdf.pages) + 1
           errs == PickErrors(Pages(data)[k])
       IN  \E exc \in IF errs = {} THEN {"OSError"} ELSE errs :
               stderr' = Append(stderr, Report("Traceback", exc, 0, 0, k))
    /\ status' = 1
    /\ pc' = "exited"
    /\ UNCHANGED <<file, out, data, t, pdf, stdout>>

\* Drawing or saving the next page raises: a failed lookup in pick, or an
\* error of the plotting library or of the file system.  The exception leaves
\* the with block, whose exit closes the document, and ends the process.
RenderFail ==
    /\ pc = "render"
    /\ LET k    == Len(pdf.pages) + 1
           errs == PickErrors(Pages(data)[k])
       IN  \E exc \in IF errs = {} THEN {"OSError"} ELSE errs :
               stderr' = Append(stderr, Report("Traceback", exc, 0, 0, k))
    /\ pdf' = [pdf EXCEPT !.closed = TRUE]
    /\ status' = 1
    /\ pc' = "exited"
    /\ UNCHANGED <<file, out, data, t, stdout>>

\* The with block ends after the tenth page: PdfPages.__exit__ closes the
\* document.
ClosePdf ==
    /\ pc = "close"
    /\ pdf' = [pdf EXCEPT !.closed = TRUE]
    /\ pc' = "print"
    /\ UNCHANGED <<file, out, data, t, stdout, stderr, status>>

\* print(f"Wrote {out_path}") and the normal end of the process
PrintWrote ==
    /\ pc = "print"
    /\ stdout' = Append(stdout, "Wrote " \o out_path)
    /\ status' = 0
    /\ pc' = "exited"
    /\ UNCHANGED <<file, out, data, t, pdf, stderr>>

Next ==
    \/ LoadData
    \/ EnsureCols
    \/ OpenPdf
    \/ OpenFail
    \/ RenderPage
    \/ RenderFail
    \/ ClosePdf
    \/ PrintWrote

Spec == Init /\ [][Next]_vars

----------------------------------------------------------------------------
\* Vocabulary of the properties

Titles(pages) == [i \in DOMAIN pages |-> pages[i].title]

Reports(kind) == {i \in DOMAIN stderr : stderr[i].kind = kind}

\* A step of the with block failed: a report that names a page.
RenderFailures == {i \in DOMAIN stderr : stderr[i].page >= 1}

\* Opening the document or saving a page failed in the environment.
IOFailures == {i \in DOMAIN stderr : stderr[i].exc = "OSError"}

\* The table that load_data returned, once it has returned one.
Loaded == pc # "load" /\ Reports("Error reading") = {}

IsTable == Loaded /\ Len(data) = 2

\* All the axes of the pages appended so far, as <<page, row>> pairs.
Charts == {<<k, i>> \in (1..Len(pdf.pages)) \X (1..13) :
              i <= Len(pdf.pages[k].axes)}

ChartAt(c) == pdf.pages[c[1]].axes[c[2]]

\* The display label the label tables hold for the metric or the triplet
\* base drawn on a chart ("" when they hold none).
RegistryLabel(ax) ==
    LET key  == IF ax.lines = <<>> THEN "" ELSE ax.lines[1].key
        trip == {i \in DOMAIN TRIPLETS : TRIPLETS[i][1] \o "_avg" = key}
        sing == {i \in DOMAIN SINGLES_IN_ORDER : SINGLES_IN_ORDER[i][1] = key}
    IN  IF Len(ax.lines) = 3 /\ trip # {} THEN TRIPLETS[CHOOSE i \in trip : TRUE][2]
        ELSE IF Len(ax.lines) = 1 /\ sing # {}
             THEN SINGLES_IN_ORDER[CHOOSE i \in sing : TRUE][2]
             ELSE ""

----------------------------------------------------------------------------
\* C1: on a table with at least 1 row and at least 77 columns, a run in which
\* no step of the with block fails appends exactly ten pages in the fixed
\* order, closes the document, and only then prints the output path and ends
\* with status 0.
C1_TenPagesThenWrote ==
    /\ (pc = "exited" /\ status = 0) =>
          /\ Titles(pdf.pages) =
                << "Headline: Gradients & Reward - trace.txt",
                   "Base TCP / pacing / delivery",
                   "Congestion state",
                   "RTT smoothed windows",
                   "Throughput (normalized) windows",
                   "RTT gradient windows",
                   "RTT variance windows",
                   "Inflight windows",
                   "Loss windows",
                   "Tail metrics" >>
          /\ pdf.closed
          /\ stdout = << "Wrote " \o (IF out = "" THEN "logs/trace_all_metrics.pdf" ELSE out) >>
    /\ stdout # <<>> => pdf.closed /\ Len(pdf.pages) = 10
    /\ (pc \in {"close", "print"}) => Len(pdf.pages) = 10
    /\ (pc = "exited" /\ IsTable /\ data[1] >= 1 /\ data[2] >= 77 /\ IOFailures = {})
          => status = 0

C1_Witness ==
    /\ pc = "exited" /\ status = 0
    /\ data = <<2, 77>>
    /\ Len(pdf.pages) = 10 /\ Len(stdout) = 1

\* C2: ensure_cols accepts a table exactly when it has more than 76 columns;
\* the rejection reports the actual column count and the required count 77.
C2_EnsureColsBoundary ==
    (IsTable /\ pc # "validate") =>
        IF data[2] >= 77
        THEN /\ \A i \in DOMAIN stderr : stderr[i].exc # "ValueError"
             /\ (pc = "open" \/ pdf.opened \/ IOFailures # {})
        ELSE /\ pc = "exited" /\ status = 1
             /\ stderr = << [kind |-> "Traceback", exc |-> "ValueError",
                             path |-> "logs/trace.txt", actual |-> data[2],
                             required |-> 77, page |-> 0] >>

C2_Witness ==
    /\ pc = "exited" /\ data = <<3, 76>>
    /\ Len(stderr) = 1 /\ stderr[1].actual = 76 /\ stderr[1].required = 77

\* C3 (as claimed): a closed document always holds all ten pages.
C3_ClosedOnlyWithTenPages ==
    pdf.closed => Len(pdf.pages) = 10

\* C3 (amended): the document is closed exactly when the with block is left:
\* with all ten pages when no step failed, and with the k-1 pages appended
\* before it when page k failed; in that case nothing is printed and the
\* status is 1.
C3_ClosedOnLeavingWith ==
    /\ pdf.closed <=> (pc \in {"print"} \/ (pc = "exited" /\ pdf.opened))
    /\ (pdf.closed /\ RenderFailures = {}) => Len(pdf.pages) = 10
    /\ \A i \in RenderFailures :
          /\ pdf.closed
          /\ Len(pdf.pages) = stderr[i].page - 1
          /\ stdout = <<>>
          /\ status = 1

C3_Witness ==
    /\ pdf.closed /\ Len(pdf.pages) = 4
    /\ pc = "exited" /\ status = 1 /\ stderr[1].page = 5

\* C4: a failure of load_data (reported with the input path, status 1) and a
\* rejection by ensure_cols both end the run with a non-zero status before
\* the document is opened, before any page is drawn and without the success
\* message.
C4_FatalBeforeOpen ==
    /\ (pc # "load" /\ file.kind # "numeric") =>
          /\ stderr = << [kind |-> "Error reading", exc |-> "Exception",
                          path |-> "logs/trace.txt", actual |-> 0,
                          required |-> 0, page |-> 0] >>
          /\ status = 1
    /\ (Loaded /\ pc # "validate" /\ ~(Len(data) = 2 /\ data[2] >= 77)) =>
          /\ Len(stderr) = 1
          /\ stderr[1].exc \in {"ValueError", "IndexError"}
    /\ (\E i \in DOMAIN stderr :
            stderr[i].kind = "Error reading"
            \/ (stderr[i].page = 0 /\ stderr[i].exc \in {"ValueError", "IndexError"})) =>
          /\ pc = "exited" /\ status > 0
          /\ ~pdf.opened /\ ~pdf.closed /\ pdf.pages = <<>>
          /\ stdout = <<>>

C4_Witness ==
    /\ pc = "exited" /\ status = 1
    /\ file.kind = "malformed"
    /\ stderr[1].kind = "Error reading" /\ stderr[1].path = "logs/trace.txt"

\* C5: page 10 (Tail metrics) holds thirteen charts, one for each of the
\* thirteen tail-metric keys, in list order.
C5_TailPageThirteenCharts ==
    Len(pdf.pages) = 10 =>
        /\ pdf.pages[10].title = "Tail metrics"
        /\ Len(pdf.pages[10].axes) = 13
        /\ \A i \in 1..13 :
              /\ Len(pdf.pages[10].axes[i].lines) = 1
              /\ pdf.pages[10].axes[i].lines[1].key = tail_keys[i]

\* C6: in a successful run every name of COLS other than "time" is drawn as
\* a series on at least one chart of the ten pages.
C6_AllMetricsPlotted ==
    (pc = "exited" /\ status = 0) =>
        \A name \in DOMAIN COLS \ {"time"} :
            \E c \in Charts :
                \E j \in DOMAIN ChartAt(c).lines : ChartAt(c).lines[j].key = name

\* C7: a file of exactly one data line of N numeric tokens is loaded as a
\* table of 1 row and N columns, so pick(table, "time") and the pick of
\* every registered name the table has a column for have length 1.
C7_SingleLineIsOneRow ==
    (pc # "load" /\ file.kind = "numeric" /\ file.L = 1) =>
        /\ data = <<1, file.W>>
        /\ pick(data, "time") = [exc |-> "none", len |-> 1, col |-> 0]
        /\ \A name \in DOMAIN COLS :
              COLS[name] < file.W => pick(data, name).exc = "none"
                                     /\ pick(data, name).len = 1

\* C8 (as claimed): on every page only the bottom chart carries the x label
\* "time (s)", and every chart's y label is the display label the label
\* tables hold for the metric or triplet base drawn on it.
C8_LabelsFromRegistry ==
    \A c \in Charts :
        /\ ChartAt(c).xlabel =
              (IF c[2] = Len(pdf.pages[c[1]].axes) THEN "time (s)" ELSE "")
        /\ ChartAt(c).ylabel = RegistryLabel(ChartAt(c))

\* C8 (amended): on every page only the bottom chart carries the x label
\* "time (s)", and every chart carries a y label fixed in the page's own
\* code: the metric key itself on pages 2 and 10, a literal elsewhere.  It
\* is the display label of the label tables only on the charts of
\* snd_ssthresh, cwnd_rate and reward.
C8_LabelsFromPageCode ==
    \A c \in Charts :
        /\ ChartAt(c).xlabel =
              (IF c[2] = Len(pdf.pages[c[1]].axes) THEN "time (s)" ELSE "")
        /\ ChartAt(c).lines # <<>>
        /\ ChartAt(c).ylabel # ""
        /\ c[1] \in {2, 10} => ChartAt(c).ylabel = ChartAt(c).lines[1].key
        /\ ChartAt(c).ylabel = RegistryLabel(ChartAt(c))
              <=> ChartAt(c).lines[1].key \in {"snd_ssthresh", "cwnd_rate", "reward"}

C8_Witness ==
    /\ Len(pdf.pages) = 10
    /\ pdf.pages[10].axes[7].xlabel = "time (s)"
    /\ pdf.pages[3].axes[2].ylabel = "ca_state"

\* C9: COLS maps 77 names to pairwise distinct indices that are exactly
\* 0..76; each of the 18 bases of TRIPLETS has base_avg, base_min, base_max
\* registered at i, i+1, i+2; no name a page passes to pick or plot_triplet
\* fails to resolve while the pages are drawn.
C9_RegistryResolves ==
    /\ Cardinality(DOMAIN COLS) = 77
    /\ \A a, b \in DOMAIN COLS : COLS[a] = COLS[b] => a = b
    /\ Range(COLS) = 0..76
    /\ Len(TRIPLETS) = 18
    /\ \A i \in DOMAIN TRIPLETS :
          LET base == TRIPLETS[i][1]
          IN  /\ {base \o "_avg", base \o "_min", base \o "_max"} \subseteq DOMAIN COLS
              /\ COLS[base \o "_min"] = COLS[base \o "_avg"] + 1
              /\ COLS[base \o "_max"] = COLS[base \o "_avg"] + 2
    /\ \A c \in Charts :
          \A j \in DOMAIN ChartAt(c).lines :
              /\ ChartAt(c).lines[j].key \in DOMAIN COLS
              /\ ChartAt(c).lines[j].y =
                    [exc |-> "none", len |-> data[1], col |-> COLS[ChartAt(c).lines[j].key]]
    /\ pdf.opened => t = [exc |-> "none", len |-> data[1], col |-> 0]
    /\ \A i \in DOMAIN stderr : stderr[i].exc # "KeyError"
    /\ \A i \in RenderFailures : stderr[i].exc = "OSError"

C9_Witness ==
    /\ pc = "print" /\ Len(pdf.pages) = 10
    /\ pdf.pages[9].axes[3].lines[3].key = "lost_l_max"
    /\ pdf.pages[9].axes[3].lines[3].y.col = 63

\* C10: a file load_data accepts with L > 1 data lines of W tokens each is
\* loaded as a table of L rows and W columns, also when W = 1, so a file
\* with one token per line never passes ensure_cols.
C10_ColumnFileStaysColumn ==
    (pc # "load" /\ file.kind = "numeric" /\ file.L > 1) =>
        /\ file.W = 1 => pc \in {"validate", "exited"} /\ ~pdf.opened /\ status # 0
        /\ data = <<file.L, file.W>>

====
